---- MODULE Spec2Model ----
(***************************************************************************)
(* Model of the adaptive multi-provider model request router of            *)
(* podplay-claude-scout:                                                   *)
(*   - MamaBearModelManager   (backend/services/mama_bear_model_manager.py)*)
(*   - MamaBearQuotaManager   (files-research/mama-bear-quota-manager.py)  *)
(* Both run on one asyncio event loop: a coroutine runs without            *)
(* interleaving until it suspends in the transport call.  The variable     *)
(* `running` holds the coroutine that owns the loop between suspensions.   *)
(* Time is in seconds.                                                     *)
(***************************************************************************)
EXTENDS Integers, Sequences, FiniteSets, TLC

\* ------------------------------------------------------------------ bounds
MaxRoutes   == 2      \* generate_response calls per run
MaxFailures == 2      \* transport calls per run that give no response
MaxTicks    == 1      \* clock advances per run
MaxRestarts == 1      \* process restarts per run
MaxEvents   == 4      \* calls, failures, clock advances and restarts per run
MaxPastErrors == 6    \* quota errors of a pair before the run

\* ------------------------------------------------------- program constants
DaySeconds    == 86400
WindowSeconds == 60
RecentSeconds == 300
SaveEvery     == 10

NONE == "none"

\* value of `running` when no coroutine holds the event loop
Idle == 0

\* The caller tasks that can be inside generate_response at the same time
Routes == {1, 2}

\* ModelStatus
AVAILABLE      == "available"
QUOTA_EXCEEDED == "quota_exceeded"
RATE_LIMITED   == "rate_limited"
ERROR          == "error"
OFFLINE        == "offline"
ModelStatus    == {AVAILABLE, QUOTA_EXCEEDED, RATE_LIMITED, ERROR, OFFLINE}

Flash2 == "gemini-2.0-flash-exp"
Flash15 == "gemini-1.5-flash"
Pro15 == "gemini-1.5-pro"
Names == {Flash2, Flash15, Pro15}

AllCaps == {"chat", "code", "vision", "function_calling"}

\* The list literal of _initialize_models, in source order.
ModelConfigs ==
  << [name |-> Flash2,  billing_account |-> 1, priority |-> 1, rate_limit |-> 10,
      daily_quota |-> 1000,  capabilities |-> {"chat", "code", "vision", "function_calling"}],
     [name |-> Flash15, billing_account |-> 1, priority |-> 2, rate_limit |-> 60,
      daily_quota |-> 10000, capabilities |-> {"chat", "code", "vision"}],
     [name |-> Pro15,   billing_account |-> 1, priority |-> 3, rate_limit |-> 60,
      daily_quota |-> 10000, capabilities |-> {"chat", "code", "vision", "function_calling"}],
     [name |-> Flash2,  billing_account |-> 2, priority |-> 4, rate_limit |-> 10,
      daily_quota |-> 1000,  capabilities |-> {"chat", "code", "vision", "function_calling"}],
     [name |-> Flash15, billing_account |-> 2, priority |-> 5, rate_limit |-> 60,
      daily_quota |-> 10000, capabilities |-> {"chat", "code", "vision"}],
     [name |-> Pro15,   billing_account |-> 2, priority |-> 6, rate_limit |-> 60,
      daily_quota |-> 10000, capabilities |-> {"chat", "code", "vision", "function_calling"}] >>

\* ------------------------------------------------------------ pure helpers
Min(a, b) == IF a < b THEN a ELSE b

\* datetime.date(): the calendar day of a timestamp
Date(t) == t \div DaySeconds

\* timedelta.seconds: the seconds field of a normalised timedelta
\* (days are a separate field and are not part of it)
TdSeconds(d) == d % DaySeconds

\* Python's sorted(seq, key=...): stable, ascending.  key is a function
\* from the elements of seq to integers.
RECURSIVE InsertByKey(_, _, _)
InsertByKey(x, s, key) ==
  IF s = << >> THEN << x >>
  ELSE IF key[x] < key[Head(s)] THEN << x >> \o s
       ELSE << Head(s) >> \o InsertByKey(x, Tail(s), key)

RECURSIVE SortedByKey(_, _)
SortedByKey(s, key) ==
  IF s = << >> THEN << >>
  ELSE InsertByKey(Head(s), SortedByKey(Tail(s), key), key)

\* [x for x in s if Test[x]]
RECURSIVE FilterSeq(_, _)
FilterSeq(s, Test) ==
  IF s = << >> THEN << >>
  ELSE IF Test[Head(s)] THEN << Head(s) >> \o FilterSeq(Tail(s), Test)
       ELSE FilterSeq(Tail(s), Test)

Range(s) == { s[i] : i \in DOMAIN s }

\* `sub in name` for the model names of the registry and the two
\* preference words the code tests for.
NameContains(name, sub) ==
  CASE sub = "pro"   -> name = Pro15
    [] sub = "flash" -> name \in {Flash2, Flash15}
    [] OTHER         -> FALSE

\* Error texts a transport call can raise, and the substrings of interest
\* each contains after lower().
ErrorTexts == {"Quota exceeded", "Rate limit hit", "Connection timeout",
               "429 Too Many Requests", "Rate limit: quota exhausted"}

LowerContains(e, sub) ==
  CASE e = "Quota exceeded"              -> sub \in {"quota"}
    [] e = "Rate limit hit"              -> sub \in {"rate", "rate limit"}
    [] e = "Connection timeout"          -> FALSE
    [] e = "429 Too Many Requests"       -> FALSE
    [] e = "Rate limit: quota exhausted" -> sub \in {"quota", "rate", "rate limit"}
    [] OTHER                             -> FALSE

\* `sub in text` without lower(); the only raw test in the code is for "429"
RawContains(e, sub) == sub = "429" /\ e = "429 Too Many Requests"

\* ------------------------------------------------------------------- state
VARIABLES
  now,              \* datetime.now(), seconds
  ticks,            \* number of clock advances so far
  model_health,     \* self.model_health: dict name -> ModelHealth (lazily filled)
  request_history,  \* self.request_history: name -> list of timestamps
  quota_file,       \* content of mama_bear_quota_state.json
  save_pending,     \* a _save_quota_state task was created and has not run yet
  route,            \* per generate_response call: its locals and position
  running,          \* the coroutine that runs now (Idle: none)
  failures,         \* transport calls so far that raised or returned no text
  restarts,         \* process restarts so far
  started,          \* generate_response calls so far
  sweep_due,        \* when the sleep of the background loop ends
                    \* (_health_check_loop; quota_monitor)
  admitted,         \* history: <<model index, time>> of every dispatched transport call
  impl,             \* which router this run exercises: "manager" or "quota"
  qstats,           \* quota manager: account.stats[model_type], per <<account, model>>
  qroute            \* quota manager: per get_response call, its locals and position

vars == << now, ticks, model_health, request_history, quota_file,
           save_pending, route, running, failures, restarts, started, sweep_due,
           admitted, impl, qstats, qroute >>

\* The variables of the model manager and those of the quota manager

\* Environment events so far in the run
Events == started + failures + ticks + restarts

mmVars == << model_health, request_history, quota_file, save_pending, route,
             restarts, sweep_due, admitted >>
qmVars == << qstats, qroute >>

\* _initialize_models: the configured list sorted by priority
InitializeModels ==
  LET idx == [i \in DOMAIN ModelConfigs |-> i]
      key == [i \in DOMAIN ModelConfigs |-> ModelConfigs[i].priority]
      ord == SortedByKey(idx, key)
  IN  [i \in DOMAIN ord |-> ModelConfigs[ord[i]]]

\* self.models: set once in __init__, never assigned again
models == InitializeModels

\* The default_factory of self.model_health, evaluated at time t.
\* was_errored is history, not a field of ModelHealth: the record has been
\* left with status ERROR by a failure since its last success.
DefaultHealth(t) ==
  [status |-> AVAILABLE, last_success |-> t, error_count |-> 0,
   quota_used_today |-> 0, rate_limit_reset |-> t, last_error |-> NONE,
   was_errored |-> FALSE]

\* defaultdict.__getitem__: reading a missing key inserts the default
Touch(mh, n, t) ==
  IF n \in DOMAIN mh THEN mh
  ELSE [x \in DOMAIN mh \cup {n} |-> IF x = n THEN DefaultHealth(t) ELSE mh[x]]

TouchAll(mh, S, t) ==
  [x \in DOMAIN mh \cup S |-> IF x \in DOMAIN mh THEN mh[x] ELSE DefaultHealth(t)]

\* model_score of _get_available_models, on a dict that has the record
ModelScore(m, mh, t) ==
  LET health  == mh[m.name]
      penalty == CASE health.status = QUOTA_EXCEEDED -> 100
                   [] health.status = RATE_LIMITED   -> 50
                   [] health.status = ERROR          -> 25 + health.error_count
                   [] OTHER                          -> 0
      bonus   == IF TdSeconds(t - health.last_success) < RecentSeconds THEN 5 ELSE 0
  IN  m.priority + penalty - bonus

\* The capability filter and the preference filter of generate_response;
\* the result is a sequence of positions in self.models
SuitableModels(ms, caps, pref) ==
  LET idx  == [i \in DOMAIN ms |-> i]
      capOK  == [i \in DOMAIN ms |-> \A cap \in caps : cap \in ms[i].capabilities]
      byCap  == FilterSeq(idx, capOK)
      prefOK == [i \in DOMAIN ms |->
                   CASE pref = "pro"   -> NameContains(ms[i].name, "pro")
                     [] pref = "flash" -> NameContains(ms[i].name, "flash")
                     [] OTHER          -> TRUE]
  IN  FilterSeq(byCap, prefOK)

\* _get_available_models: sorted(models, key=model_score); scoring reads
\* self.model_health[name] and so creates the missing records first
GetAvailableModels(ms, suitable, mh, t) ==
  LET mh2 == TouchAll(mh, { ms[i].name : i \in Range(suitable) }, t)
      key == [i \in DOMAIN ms |->
                IF ms[i].name \in DOMAIN mh2 THEN ModelScore(ms[i], mh2, t) ELSE 0]
  IN  [list |-> SortedByKey(suitable, key), health |-> mh2]

\* available_models[:max_retries] for max_retries >= 0
Prefix(s, n) == SubSeq(s, 1, Min(n, Len(s)))

IdleRoute ==
  [pc |-> "idle", pref |-> "auto", caps |-> {}, max_retries |-> 0,
   suitable |-> << >>, list |-> << >>, pos |-> 0, attempts |-> << >>,
   last_error |-> NONE, result |-> [success |-> FALSE, model_used |-> NONE,
                                    billing_account |-> 0, attempts |-> << >>,
                                    last_error |-> NONE],
   calls |-> << >>, raised |-> << >>, skipped |-> {}]

\* ------------------------------------------ generate_response, step by step
\* Inputs of a call: (model_preference, required_capabilities, max_retries)
Requests ==
  { << "auto",  {"chat"}, 6 >>,
    << "auto",  {"chat"}, 1 >>,
    << "flash", {"chat", "function_calling"}, 2 >>,
    << "auto",  {"audio"}, 6 >> }

\* A caller is inside generate_response
Active(r) == route[r].pc \in {"loop", "quota", "call"}

\* The locals of a call that has returned are gone at the next step of the
\* event loop: a record with pc "done" shows the value returned for one state
Collected(rt) == [r \in DOMAIN rt |-> IF rt[r].pc = "done" THEN IdleRoute ELSE rt[r]]

\* Lines 164-181: defaults, filters, ranking, locals.  The coroutine keeps
\* the loop until its first transport call.
StartRoute(r, pref, caps, max_retries) ==
  /\ impl = "manager"
  /\ running = Idle
  /\ ~Active(r)
  /\ \A q \in Routes : q < r => Active(q)
  /\ started < MaxRoutes /\ Events < MaxEvents
  /\ started' = started + 1
  /\ LET suitable == SuitableModels(models, caps, pref)
         ranked   == GetAvailableModels(models, suitable, model_health, now)
     IN  /\ model_health' = ranked.health
         /\ route' = [Collected(route) EXCEPT ![r] =
               [IdleRoute EXCEPT !.pc = "loop", !.pref = pref, !.caps = caps,
                                 !.max_retries = max_retries,
                                 !.suitable = suitable,
                                 !.list = Prefix(ranked.list, max_retries),
                                 !.pos = 1]]
  /\ running' = r
  /\ UNCHANGED << now, ticks, request_history, quota_file, save_pending,
                  failures, restarts, sweep_due, admitted, impl, qmVars >>

\* _check_rate_limit: prune the window, compare with the limit
PrunedHistory(h, t) ==
  FilterSeq(h, [x \in Range(h) |-> TdSeconds(t - x) < WindowSeconds])

CheckRateLimit(r) ==
  /\ running = r
  /\ route[r].pc = "loop"
  /\ route[r].pos <= Len(route[r].list)
  /\ LET i      == route[r].list[route[r].pos]
         m      == models[i]
         pruned == PrunedHistory(request_history[m.name], now)
     IN  /\ request_history' = [request_history EXCEPT ![m.name] = pruned]
         /\ IF Len(pruned) < m.rate_limit
            THEN route' = [Collected(route) EXCEPT ![r].pc = "quota"]
            ELSE route' = [Collected(route) EXCEPT ![r].pos = @ + 1,
                                        ![r].skipped = @ \cup {i}]
  /\ UNCHANGED << now, ticks, model_health, quota_file, save_pending, running,
                  failures, restarts, started, sweep_due, admitted, impl, qmVars >>

\* _check_quota on the record of name n: lazy reset on a new day
QuotaRolled(mh, n, t) ==
  LET mh2 == Touch(mh, n, t)
  IN  IF Date(mh2[n].rate_limit_reset) < Date(t)
      THEN [mh2 EXCEPT ![n].quota_used_today = 0, ![n].rate_limit_reset = t]
      ELSE mh2

\* Variant: the comparison admits a counter that has reached the quota
QuotaOK_inclusive(health, m) == health.quota_used_today <= m.daily_quota

\* Line 321: the comparison of _check_quota
QuotaOK(health, m) == health.quota_used_today < m.daily_quota

\* Variant: a refusal by the quota check marks the record QUOTA_EXCEEDED
CheckQuota_marks(r) ==
  /\ running = r
  /\ route[r].pc = "quota"
  /\ LET i   == route[r].list[route[r].pos]
         m   == models[i]
         mh2 == QuotaRolled(model_health, m.name, now)
     IN  IF QuotaOK(mh2[m.name], m)
         THEN /\ model_health' = mh2
              /\ route' = [Collected(route) EXCEPT ![r].pc = "call",
                                         ![r].calls = Append(@, i)]
              /\ admitted' = Append(admitted, << i, now >>)
              /\ running' = Idle
         ELSE /\ model_health' = [mh2 EXCEPT ![m.name].status = QUOTA_EXCEEDED]
              /\ route' = [Collected(route) EXCEPT ![r].pc = "loop", ![r].pos = @ + 1,
                                         ![r].skipped = @ \cup {i}]
              /\ UNCHANGED << admitted, running >>
  /\ UNCHANGED << now, ticks, request_history, quota_file, save_pending,
                  failures, restarts, started, sweep_due, impl, qmVars >>

\* Lines 190-196 and _call_model up to the await of the provider call:
\* the quota check and, if it passes, the dispatch of the transport call.
CheckQuota(r) ==
  /\ running = r
  /\ route[r].pc = "quota"
  /\ LET i   == route[r].list[route[r].pos]
         m   == models[i]
         mh2 == QuotaRolled(model_health, m.name, now)
     IN  /\ model_health' = mh2
         /\ IF QuotaOK(mh2[m.name], m)
            THEN /\ route' = [Collected(route) EXCEPT ![r].pc = "call",
                                            ![r].calls = Append(@, i)]
                 /\ admitted' = Append(admitted, << i, now >>)
                 /\ running' = Idle
            ELSE /\ route' = [Collected(route) EXCEPT ![r].pc = "loop", ![r].pos = @ + 1,
                                            ![r].skipped = @ \cup {i}]
                 /\ UNCHANGED << admitted, running >>
  /\ UNCHANGED << now, ticks, request_history, quota_file, save_pending,
                  failures, restarts, started, sweep_due, impl, qmVars >>

\* _track_usage, on the record of name n
TrackedHealth(mh, n, t) ==
  LET mh2 == Touch(mh, n, t)
  IN  [mh2 EXCEPT ![n].quota_used_today = @ + 1]

\* _update_model_health(model, success=True)
HealthAfterSuccess(mh, n, t) ==
  LET mh2 == Touch(mh, n, t)
  IN  [mh2 EXCEPT ![n].status = AVAILABLE, ![n].last_success = t,
                  ![n].error_count = 0, ![n].last_error = NONE,
                  ![n].was_errored = FALSE]

\* _update_model_health(model, success=False, error=e)
HealthAfterFailure(mh, n, e, t) ==
  LET mh2 == Touch(mh, n, t)
      cnt == mh2[n].error_count + 1
      mh3 == [mh2 EXCEPT ![n].error_count = cnt, ![n].last_error = e]
  IN  IF cnt > 5 THEN [mh3 EXCEPT ![n].status = ERROR]
      ELSE IF LowerContains(e, "rate")
           THEN [mh3 EXCEPT ![n].status = RATE_LIMITED,
                            ![n].rate_limit_reset = t + 60]
           ELSE mh3

\* Lines 232-234: the quota test of the except branch
IsQuotaError(e) == LowerContains(e, "quota") \/ RawContains(e, "429")

\* Variant: more than five errors in a row take the record out of service
RecordedFailure_offline(mh, n, e, t) ==
  LET mh2 == HealthAfterFailure(mh, n, e, t)
      mh3 == IF IsQuotaError(e)
             THEN [mh2 EXCEPT ![n].status = QUOTA_EXCEEDED]
             ELSE mh2
  IN  IF mh3[n].status = ERROR
      THEN [mh3 EXCEPT ![n].status = OFFLINE, ![n].was_errored = TRUE]
      ELSE mh3

\* Lines 220-234: what the except branch of generate_response does to the
\* record of name n: _update_model_health, then the quota test
RecordedFailure(mh, n, e, t) ==
  LET mh2 == HealthAfterFailure(mh, n, e, t)
      mh3 == IF IsQuotaError(e)
             THEN [mh2 EXCEPT ![n].status = QUOTA_EXCEEDED]
             ELSE mh2
  IN  [mh3 EXCEPT ![n].was_errored = @ \/ mh3[n].status = ERROR]

\* The provider call returns: rest of _call_model (_track_usage), then
\* lines 198-215 of generate_response.
CallReturns(r) ==
  /\ running = Idle
  /\ route[r].pc = "call"
  /\ LET i   == route[r].list[route[r].pos]
         m   == models[i]
         mh2 == TrackedHealth(model_health, m.name, now)
         att == Append(route[r].attempts,
                       [model |-> m.name, billing_account |-> m.billing_account,
                        attempt |-> route[r].pos, success |-> TRUE, error |-> NONE])
     IN  /\ request_history' = [request_history EXCEPT ![m.name] = Append(@, now)]
         /\ save_pending' = (save_pending \/ mh2[m.name].quota_used_today % SaveEvery = 0)
         /\ model_health' = HealthAfterSuccess(mh2, m.name, now)
         /\ route' = [Collected(route) EXCEPT ![r].pc = "done", ![r].attempts = att,
                         ![r].result = [success |-> TRUE, model_used |-> m.name,
                                        billing_account |-> m.billing_account,
                                        attempts |-> att,
                                        last_error |-> route[r].last_error]]
  /\ UNCHANGED << now, ticks, quota_file, running, failures, restarts, started,
                  sweep_due, admitted, impl, qmVars >>

\* Variant: after a failure the loop tries the same candidate again
CallRaises_retry(r, e) ==
  /\ running = Idle
  /\ route[r].pc = "call"
  /\ failures < MaxFailures /\ Events < MaxEvents
  /\ LET i   == route[r].list[route[r].pos]
         m   == models[i]
         att == Append(route[r].attempts,
                       [model |-> m.name, billing_account |-> m.billing_account,
                        attempt |-> route[r].pos, success |-> FALSE, error |-> e])
     IN  /\ model_health' = RecordedFailure(model_health, m.name, e, now)
         /\ route' = [Collected(route) EXCEPT ![r].pc = "loop",
                                    ![r].attempts = att, ![r].last_error = e,
                                    ![r].raised = Append(@, << i, e >>)]
  /\ running' = r
  /\ failures' = failures + 1
  /\ UNCHANGED << now, ticks, request_history, quota_file, save_pending,
                  restarts, started, sweep_due, admitted, impl, qmVars >>

\* The provider call raises e: lines 217-236, then the loop goes on.
CallRaises(r, e) ==
  /\ running = Idle
  /\ route[r].pc = "call"
  /\ failures < MaxFailures /\ Events < MaxEvents
  /\ LET i   == route[r].list[route[r].pos]
         m   == models[i]
         att == Append(route[r].attempts,
                       [model |-> m.name, billing_account |-> m.billing_account,
                        attempt |-> route[r].pos, success |-> FALSE, error |-> e])
     IN  /\ model_health' = RecordedFailure(model_health, m.name, e, now)
         /\ route' = [Collected(route) EXCEPT ![r].pc = "loop", ![r].pos = @ + 1,
                                    ![r].attempts = att, ![r].last_error = e,
                                    ![r].raised = Append(@, << i, e >>)]
  /\ running' = r
  /\ failures' = failures + 1
  /\ UNCHANGED << now, ticks, request_history, quota_file, save_pending,
                  restarts, started, sweep_due, admitted, impl, qmVars >>

\* Variant: the failure value drops the trail and the last error
FailureResult_bare(attempts, last_error) ==
  [success |-> FALSE, model_used |-> NONE, billing_account |-> 0,
   attempts |-> << >>, last_error |-> NONE]

\* Lines 239-244: the dict returned when no model succeeded
FailureResult(attempts, last_error) ==
  [success |-> FALSE, model_used |-> NONE, billing_account |-> 0,
   attempts |-> attempts, last_error |-> last_error]

\* Lines 238-244: the loop is over without a success
RouteFails(r) ==
  /\ running = r
  /\ route[r].pc = "loop"
  /\ route[r].pos > Len(route[r].list)
  /\ route' = [Collected(route) EXCEPT ![r].pc = "done",
                  ![r].result = FailureResult(route[r].attempts,
                                              route[r].last_error)]
  /\ running' = Idle
  /\ UNCHANGED << now, ticks, model_health, request_history, quota_file,
                  save_pending, failures, restarts, started, sweep_due, admitted, impl, qmVars >>

\* The caller cancels the task that runs generate_response while it waits
\* for the provider (line 196, and line 264 inside it): CancelledError is
\* raised at the await.  It is not an Exception, so the except branch of
\* line 217 does not run, and there is no finally: the coroutine ends with
\* every line after the await skipped.
CancelRoute(r) ==
  /\ impl = "manager"
  /\ running = Idle
  /\ route[r].pc = "call"
  /\ route' = [Collected(route) EXCEPT ![r].pc = "cancelled"]
  /\ UNCHANGED << now, ticks, model_health, request_history, quota_file,
                  save_pending, running, failures, restarts, started,
                  sweep_due, admitted, impl, qmVars >>

\* What the provider did with a request whose caller is gone
ProviderOutcomes == {"served", "refused"}

\* The provider finishes the request of a cancelled call: no coroutine
\* waits for the answer, so no line of the manager runs
AbandonedCallEnds(r, outcome) ==
  /\ running = Idle
  /\ route[r].pc = "cancelled"
  /\ route' = [Collected(route) EXCEPT ![r] = IdleRoute]
  /\ UNCHANGED << now, ticks, model_health, request_history, quota_file,
                  save_pending, running, failures, restarts, started,
                  sweep_due, admitted, impl, qmVars >>

\* ------------------------------------------------ background tasks, restart
SweepSeconds == 300

\* Variant: the decay of the error count does not look at the status
SweepOne_any_status(mh, n, t) ==
  LET mh1 == Touch(mh, n, t)
      h1  == mh1[n]
      h2  == IF h1.error_count > 0
                /\ TdSeconds(t - h1.last_success) > 300
             THEN [h1 EXCEPT !.error_count = 0] ELSE h1
      h3  == IF h2.status = RATE_LIMITED /\ t > h2.rate_limit_reset
             THEN [h2 EXCEPT !.status = AVAILABLE] ELSE h2
      h4  == IF h3.status = QUOTA_EXCEEDED /\ Date(h3.rate_limit_reset) < Date(t)
             THEN [h3 EXCEPT !.status = AVAILABLE, !.quota_used_today = 0] ELSE h3
  IN  [mh1 EXCEPT ![n] = h4]

\* One iteration of the for loop of _health_check_loop (lines 375-393)
SweepOne(mh, n, t) ==
  LET mh1 == Touch(mh, n, t)
      h1  == mh1[n]
      h2  == IF h1.error_count > 0 /\ h1.status = AVAILABLE
                /\ TdSeconds(t - h1.last_success) > 300
             THEN [h1 EXCEPT !.error_count = 0] ELSE h1
      h3  == IF h2.status = RATE_LIMITED /\ t > h2.rate_limit_reset
             THEN [h2 EXCEPT !.status = AVAILABLE] ELSE h2
      h4  == IF h3.status = QUOTA_EXCEEDED /\ Date(h3.rate_limit_reset) < Date(t)
             THEN [h3 EXCEPT !.status = AVAILABLE, !.quota_used_today = 0] ELSE h3
  IN  [mh1 EXCEPT ![n] = h4]

\* for model in self.models: one iteration per configured model, in order
\* (the dict left by one iteration is computed once and handed to the next)
RECURSIVE SweepFrom(_, _, _)
SweepFrom(mh, k, t) ==
  IF k > Len(models) THEN mh
  ELSE CHOOSE swept \in { SweepFrom(x, k + 1, t) :
                             x \in { SweepOne(mh, models[k].name, t) } } : TRUE

SweepAll(mh, t) == SweepFrom(mh, 1, t)

\* The file mama_bear_quota_state.json
NoFile      == [kind |-> "absent",  timestamp |-> 0, model_health |-> << >>]
CorruptFile == [kind |-> "corrupt", timestamp |-> 0, model_health |-> << >>]

\* The state dict built by _save_quota_state (lines 404-415)
Snapshot(mh, t) ==
  [kind |-> "state", timestamp |-> t,
   model_health |-> [n \in DOMAIN mh |->
      [quota_used_today |-> mh[n].quota_used_today,
       rate_limit_reset |-> mh[n].rate_limit_reset,
       status           |-> mh[n].status,
       error_count      |-> mh[n].error_count]]]

\* Lines 417-421: open for writing and write; an error is logged and
\* swallowed.  "open" fails before the file is truncated, "write" after.
WriteOutcomes == {"ok", "open", "write"}

Written(file, state, outcome) ==
  CASE outcome = "ok"    -> state
    [] outcome = "open"  -> file
    [] outcome = "write" -> CorruptFile

\* _load_quota_state applied to the dict mh at time t
LoadQuotaState(mh, file, t) ==
  IF file.kind = "state" /\ Date(file.timestamp) = Date(t)
  THEN [n \in DOMAIN mh |->
          IF n \in DOMAIN file.model_health
          THEN [mh[n] EXCEPT
                  !.quota_used_today = file.model_health[n].quota_used_today,
                  !.error_count      = file.model_health[n].error_count]
          ELSE mh[n]]
  ELSE mh

\* Variant: construction applies the records of the file whatever its date
ConstructedHealth_stale(file, t) ==
  IF file.kind = "state"
  THEN [n \in DOMAIN file.model_health |->
          [DefaultHealth(t) EXCEPT
             !.quota_used_today = file.model_health[n].quota_used_today,
             !.error_count      = file.model_health[n].error_count,
             !.status           = file.model_health[n].status]]
  ELSE << >>

\* __init__ at time t: empty dicts, then _load_quota_state
ConstructedHealth(file, t) == LoadQuotaState(<< >>, file, t)

\* Variant: a failed write ends the loop, which never wakes again
HealthCheckLoop_halts(outcome) ==
  /\ running = Idle
  /\ now >= sweep_due
  /\ LET mh2 == SweepAll(model_health, now)
     IN  /\ model_health' = mh2
         /\ quota_file' = Written(quota_file, Snapshot(mh2, now), outcome)
  /\ sweep_due' = IF outcome = "ok" THEN now + SweepSeconds
                  ELSE now + 1000 * DaySeconds
  /\ route' = Collected(route)
  /\ UNCHANGED << now, ticks, request_history, save_pending, running,
                  failures, restarts, started, admitted, impl, qmVars >>

\* _health_check_loop: wake after the sleep, sweep, save
HealthCheckLoop(outcome) ==
  /\ running = Idle
  /\ now >= sweep_due
  /\ LET mh2 == SweepAll(model_health, now)
     IN  /\ model_health' = mh2
         /\ quota_file' = Written(quota_file, Snapshot(mh2, now), outcome)
  /\ sweep_due' = now + SweepSeconds
  /\ route' = Collected(route)
  /\ UNCHANGED << now, ticks, request_history, save_pending, running,
                  failures, restarts, started, admitted, impl, qmVars >>

\* The task created by _track_usage runs _save_quota_state
SaveQuotaState(outcome) ==
  /\ running = Idle
  /\ save_pending
  /\ quota_file' = Written(quota_file, Snapshot(model_health, now), outcome)
  /\ save_pending' = FALSE
  /\ route' = Collected(route)
  /\ UNCHANGED << now, ticks, model_health, request_history, running,
                  failures, restarts, started, sweep_due, admitted, impl, qmVars >>

\* The process stops and is started again: __init__ (lines 48-71).
\* Calls in flight die with the process.
Restart ==
  /\ running = Idle
  /\ restarts < MaxRestarts /\ Events < MaxEvents
  /\ model_health' = ConstructedHealth(quota_file, now)
  /\ request_history' = [n \in Names |-> << >>]
  /\ save_pending' = FALSE
  /\ route' = [r \in Routes |->
                 IF ~Active(r) THEN Collected(route)[r]
                 ELSE [route[r] EXCEPT !.pc = "lost"]]
  /\ sweep_due' = now + SweepSeconds
  /\ restarts' = restarts + 1
  /\ UNCHANGED << now, ticks, quota_file, running, failures, started, admitted, impl, qmVars >>

\* The clock
StartTime == 86340
Jumps == {30, 301, 86400}

Tick(d) ==
  /\ running = Idle
  /\ ticks < MaxTicks /\ Events < MaxEvents
  /\ now' = now + d
  /\ ticks' = ticks + 1
  /\ route' = Collected(route)
  /\ UNCHANGED << model_health, request_history, quota_file, save_pending,
                  running, failures, restarts, started, sweep_due, admitted, impl, qmVars >>

\* ------------------------------------------------------------ quota manager
\* ModelType, in declaration order
PRO_PREVIEW_05_06   == "gemini-2.5-pro-preview-05-06"
FLASH_PREVIEW_04_17 == "gemini-2.5-flash-preview-04-17"
FLASH_PREVIEW_05_20 == "gemini-2.5-flash-preview-05-20"
ModelType == { PRO_PREVIEW_05_06, FLASH_PREVIEW_04_17, FLASH_PREVIEW_05_20 }

\* ModelSelector.select_model_for_task
SelectModelForTask(task_type) ==
  IF task_type \in {"code_generation", "complex_analysis", "architecture_design"}
  THEN << PRO_PREVIEW_05_06, FLASH_PREVIEW_05_20, FLASH_PREVIEW_04_17 >>
  ELSE IF task_type \in {"quick_response", "simple_query", "status_check"}
  THEN << FLASH_PREVIEW_05_20, FLASH_PREVIEW_04_17, PRO_PREVIEW_05_06 >>
  ELSE << FLASH_PREVIEW_05_20, PRO_PREVIEW_05_06, FLASH_PREVIEW_04_17 >>

\* config['billing_accounts'] of the run: the primary account is listed last
BillingConfig == << [id |-> "backup", is_primary |-> FALSE],
                    [id |-> "main",   is_primary |-> TRUE] >>

\* _setup_accounts: accounts.sort(key=is_primary, reverse=True), stable
SetupAccounts ==
  LET idx == [i \in DOMAIN BillingConfig |-> i]
      key == [i \in DOMAIN BillingConfig |->
                IF BillingConfig[i].is_primary THEN 0 ELSE 1]
      ord == SortedByKey(idx, key)
  IN  [i \in DOMAIN ord |-> BillingConfig[ord[i]].id]

accounts == SetupAccounts
AccountIds == Range(accounts)

\* None for an Optional[datetime]
NoTime == -1

\* ModelStats()
NewStats ==
  [total_requests |-> 0, successful_requests |-> 0, quota_errors |-> 0,
   other_errors |-> 0, last_quota_error |-> NoTime, last_success |-> NoTime,
   cooldown_until |-> NoTime]

\* 2 ** n
RECURSIVE Pow2(_)
Pow2(n) == IF n = 0 THEN 1 ELSE 2 * Pow2(n - 1)

\* Line 186: the cooldown in minutes after the quota error that made the
\* counter quota_errors
CooldownMinutes(quota_errors) == Min(60, 5 * Pow2(Min(quota_errors, 5)))

\* Line 142: the pair is in cooldown
InCooldown(st, t) == st.cooldown_until # NoTime /\ t < st.cooldown_until

\* Lines 161-169: the statistics after a call that returned
StatsAfterSuccess(st, t) ==
  [st EXCEPT !.total_requests = @ + 1, !.successful_requests = @ + 1,
             !.last_success = t]

\* Line 181: the except branch treats the error as a quota error
IsQuotaText(e) == LowerContains(e, "quota") \/ LowerContains(e, "rate limit")

\* Variant: the cooldown is computed from the count before the increment
StatsAfterError_prior(st, e, t) ==
  LET st1 == [st EXCEPT !.total_requests = @ + 1]
  IN  IF IsQuotaText(e)
      THEN [st1 EXCEPT !.quota_errors = @ + 1, !.last_quota_error = t,
                       !.cooldown_until =
                          t + 60 * CooldownMinutes(st.quota_errors)]
      ELSE [st1 EXCEPT !.other_errors = @ + 1]

\* Lines 178-198: the statistics after a call that raised e
StatsAfterError(st, e, t) ==
  LET st1 == [st EXCEPT !.total_requests = @ + 1]
  IN  IF IsQuotaText(e)
      THEN [st1 EXCEPT !.quota_errors = @ + 1, !.last_quota_error = t,
                       !.cooldown_until =
                          t + 60 * CooldownMinutes(st.quota_errors + 1)]
      ELSE [st1 EXCEPT !.other_errors = @ + 1]

\* The pairs get_response visits: for model in priority, for account in accounts
RECURSIVE VisitOrder(_)
VisitOrder(ms) ==
  IF ms = << >> THEN << >>
  ELSE [k \in DOMAIN accounts |-> << accounts[k], Head(ms) >>] \o VisitOrder(Tail(ms))

IdleQRoute ==
  [pc |-> "idle", max_retries |-> 0, order |-> << >>, pos |-> 0, attempts |-> 0,
   errors |-> << >>, wake_at |-> 0,
   result |-> [success |-> FALSE, model_used |-> NONE, account_used |-> NONE,
               attempts |-> 0, errors |-> << >>],
   calls |-> << >>, raised |-> << >>, skipped |-> {}]

QActive(r) == qroute[r].pc \in {"loop", "call", "sleep"}

\* As Collected, for get_response
QCollected(rt) == [r \in DOMAIN rt |-> IF rt[r].pc = "done" THEN IdleQRoute ELSE rt[r]]

\* Inputs of get_response: (task_type, max_retries)
QRequests == { << "code_generation", 3 >>, << "general", 3 >>,
               << "quick_response", 1 >> }

\* Response texts: get_response tests the text for truth
Texts == { "text", "" }

\* get_response lines 219-223
QStart(r, task_type, max_retries) ==
  /\ impl = "quota"
  /\ running = Idle
  /\ ~QActive(r)
  /\ \A q \in Routes : q < r => QActive(q)
  /\ started < MaxRoutes /\ Events < MaxEvents
  /\ started' = started + 1
  /\ qroute' = [QCollected(qroute) EXCEPT ![r] =
        [IdleQRoute EXCEPT !.pc = "loop", !.max_retries = max_retries,
                           !.order = VisitOrder(SelectModelForTask(task_type)),
                           !.pos = 1]]
  /\ running' = r
  /\ UNCHANGED << now, ticks, failures, qstats, impl, mmVars >>

\* One pass of the inner loop up to the provider call: attempts += 1,
\* then _try_model_with_account lines 140-159
QTry(r) ==
  /\ running = r
  /\ qroute[r].pc = "loop"
  /\ qroute[r].pos <= Len(qroute[r].order)
  /\ LET pair == qroute[r].order[qroute[r].pos]
     IN  IF InCooldown(qstats[pair], now)
         THEN /\ qroute' = [QCollected(qroute) EXCEPT ![r].attempts = @ + 1,
                                          ![r].pos = @ + 1,
                                          ![r].skipped = @ \cup {pair}]
              /\ UNCHANGED running
         ELSE /\ qroute' = [QCollected(qroute) EXCEPT ![r].attempts = @ + 1,
                                          ![r].pc = "call",
                                          ![r].calls = Append(@, pair)]
              /\ running' = Idle
  /\ UNCHANGED << now, ticks, failures, started, qstats, impl, mmVars >>

\* The provider call returns text: lines 161-176, then 240-247
QReturns(r, text) ==
  /\ running = Idle
  /\ qroute[r].pc = "call"
  /\ text = "" => (failures < MaxFailures /\ Events < MaxEvents)
  /\ LET pair == qroute[r].order[qroute[r].pos]
     IN  /\ qstats' = [qstats EXCEPT ![pair] = StatsAfterSuccess(@, now)]
         /\ IF text # ""
            THEN /\ qroute' = [QCollected(qroute) EXCEPT ![r].pc = "done",
                      ![r].result = [success |-> TRUE, model_used |-> pair[2],
                                     account_used |-> pair[1],
                                     attempts |-> qroute[r].attempts,
                                     errors |-> qroute[r].errors]]
                 /\ UNCHANGED << running, failures >>
            ELSE /\ qroute' = [QCollected(qroute) EXCEPT ![r].pc = "loop", ![r].pos = @ + 1]
                 /\ running' = r
                 /\ failures' = failures + 1
  /\ UNCHANGED << now, ticks, started, impl, mmVars >>

\* The string appended to errors (lines 250 and 254): the text of the
\* QuotaException of line 194, which names the model only, or the model,
\* the account and the text of the exception
ErrorEntry(pair, e) ==
  IF IsQuotaText(e)
  THEN [text |-> "Quota exceeded for", model |-> pair[2]]
  ELSE [model |-> pair[2], account |-> pair[1], error |-> e]

\* The provider call raises e: lines 178-198, then 249-260
QRaises(r, e) ==
  /\ running = Idle
  /\ qroute[r].pc = "call"
  /\ failures < MaxFailures /\ Events < MaxEvents
  /\ failures' = failures + 1
  /\ LET pair == qroute[r].order[qroute[r].pos]
         errs == Append(qroute[r].errors, ErrorEntry(pair, e))
     IN  /\ qstats' = [qstats EXCEPT ![pair] = StatsAfterError(@, e, now)]
         /\ IF ~IsQuotaText(e) /\ qroute[r].attempts < qroute[r].max_retries
            THEN /\ qroute' = [QCollected(qroute) EXCEPT ![r].pc = "sleep", ![r].errors = errs,
                                             ![r].wake_at = now + 1,
                                             ![r].raised = Append(@, << pair, e >>)]
                 /\ UNCHANGED running
            ELSE /\ qroute' = [QCollected(qroute) EXCEPT ![r].pc = "loop", ![r].errors = errs,
                                             ![r].pos = @ + 1,
                                             ![r].raised = Append(@, << pair, e >>)]
                 /\ running' = r
  /\ UNCHANGED << now, ticks, started, impl, mmVars >>

\* asyncio.sleep(1) of line 259 is over: the clock has reached wake_at
QWake(r) ==
  /\ running = Idle
  /\ qroute[r].pc = "sleep"
  /\ now' = IF now < qroute[r].wake_at THEN qroute[r].wake_at ELSE now
  /\ qroute' = [QCollected(qroute) EXCEPT ![r].pc = "loop", ![r].pos = @ + 1]
  /\ running' = r
  /\ UNCHANGED << ticks, failures, started, qstats, impl, mmVars >>

\* The clock advances between get_response calls
QTick(d) ==
  /\ impl = "quota"
  /\ \A r \in Routes : ~QActive(r)
  /\ running = Idle
  /\ ticks < MaxTicks /\ Events < MaxEvents
  /\ now' = now + d
  /\ ticks' = ticks + 1
  /\ qroute' = QCollected(qroute)
  /\ UNCHANGED << mmVars, running, failures, started, impl, qstats >>

\* Lines 262-271: all pairs were visited without a response
QFails(r) ==
  /\ running = r
  /\ qroute[r].pc = "loop"
  /\ qroute[r].pos > Len(qroute[r].order)
  /\ qroute' = [QCollected(qroute) EXCEPT ![r].pc = "done",
        ![r].result = [success |-> FALSE, model_used |-> NONE,
                       account_used |-> NONE,
                       attempts |-> qroute[r].attempts,
                       errors |-> qroute[r].errors]]
  /\ running' = Idle
  /\ UNCHANGED << now, ticks, failures, started, qstats, impl, mmVars >>

\* The sleep of quota_monitor (line 348)
MonitorSeconds == 60

\* get_health_status, line 289: the pair is available at time t
PairAvailable(st, t) == st.cooldown_until = NoTime \/ t > st.cooldown_until

\* get_health_status, lines 307-308: no pair is available
Critical(stats, t) == \A p \in DOMAIN stats : ~PairAvailable(stats[p], t)

\* Lines 341-345 of quota_monitor, with the clock read at time t
MonitorReset(st, t) ==
  IF st.cooldown_until # NoTime /\ t > st.cooldown_until
  THEN [st EXCEPT !.cooldown_until = NoTime, !.quota_errors = 0]
  ELSE st

\* What the clock can advance by between the reads of datetime.now() in
\* get_health_status and the read in the loop of quota_monitor
MonitorElapsed == {0, 1}

\* One pass of quota_monitor: the health report, the resets when it says
\* "critical", then the sleep
QuotaMonitor(d) ==
  /\ impl = "quota"
  /\ running = Idle
  /\ now >= sweep_due
  /\ qstats' = IF Critical(qstats, now)
                THEN [p \in DOMAIN qstats |-> MonitorReset(qstats[p], now + d)]
                ELSE qstats
  /\ now' = now + d
  /\ sweep_due' = now + d + MonitorSeconds
  /\ qroute' = QCollected(qroute)
  /\ UNCHANGED << ticks, model_health, request_history, quota_file,
                  save_pending, route, running, failures, restarts, started,
                  admitted, impl >>

\* --------------------------------------------------------------- behaviour
\* States the manager can be in when observation starts: just constructed
\* ("cold"), or after the top model has served k requests today.
RECURSIVE Repeat(_, _)
Repeat(x, n) == IF n = 0 THEN << >> ELSE << x >> \o Repeat(x, n - 1)

WarmHealth(used) ==
  [n \in Names |->
     IF n = Flash2
     THEN [DefaultHealth(0) EXCEPT !.last_success = StartTime,
                                   !.quota_used_today = used]
     ELSE DefaultHealth(0)]

\* The top model after five calls that raised "Connection timeout"
WarmErrors ==
  [n \in Names |->
     IF n = Flash2
     THEN [DefaultHealth(0) EXCEPT !.error_count = 5,
                                   !.last_error = "Connection timeout"]
     ELSE DefaultHealth(0)]

InitManager ==
  \/ /\ model_health = WarmErrors
     /\ request_history = [n \in Names |-> << >>]
     /\ admitted = Repeat(<< 1, 0 >>, 5)
  \/ /\ model_health = ConstructedHealth(NoFile, StartTime)
     /\ request_history = [n \in Names |-> << >>]
     /\ admitted = << >>
  \/ /\ model_health = WarmHealth(9)
     /\ request_history = [n \in Names |->
           IF n = Flash2 THEN Repeat(StartTime, 9) ELSE << >>]
     /\ admitted = Repeat(<< 1, StartTime >>, 9)
  \/ /\ model_health = WarmHealth(999)
     /\ request_history = [n \in Names |->
           IF n = Flash2 THEN << StartTime >> ELSE << >>]
     /\ admitted = << << 1, StartTime >> >>

\* The statistics of the quota manager when observation starts: just set up,
\* or after every pair of the two newest models raised a quota error
ColdStats == [p \in AccountIds \X ModelType |-> NewStats]

WarmStats ==
  [p \in AccountIds \X ModelType |->
     IF p[2] \in {PRO_PREVIEW_05_06, FLASH_PREVIEW_05_20}
     THEN StatsAfterError(NewStats, "Quota exceeded", StartTime)
     ELSE NewStats]

\* The statistics of a pair after k quota errors, the last at time 0: its
\* cooldown is over when observation starts
RECURSIVE PastStats(_)
PastStats(k) ==
  IF k = 0 THEN NewStats ELSE StatsAfterError(PastStats(k - 1), "Quota exceeded", 0)

InitCommon ==
  /\ qroute = [r \in Routes |-> IdleQRoute]
  /\ now = StartTime
  /\ ticks = 0
  /\ quota_file = NoFile
  /\ save_pending = FALSE
  /\ route = [r \in Routes |-> IdleRoute]
  /\ running = Idle
  /\ failures = 0
  /\ restarts = 0
  /\ started = 0
  /\ sweep_due = StartTime + SweepSeconds

Init ==
  /\ InitCommon
  /\ \/ /\ impl = "manager"
        /\ InitManager
        /\ qstats = ColdStats
     \/ /\ impl = "quota"
        /\ \/ qstats \in {ColdStats, WarmStats}
           \/ \E k \in 1..MaxPastErrors :
                 qstats = [p \in AccountIds \X ModelType |-> PastStats(k)]
        /\ model_health = << >>
        /\ request_history = [n \in Names |-> << >>]
        /\ admitted = << >>

\* Clock advances used with the quota manager
QJumps == {599, 601}

\* A run exercises one router: the model manager with concurrent callers at
\* one instant, or the quota manager with one caller at a time and the clock
Next ==
  \/ \E r \in Routes, q \in Requests : StartRoute(r, q[1], q[2], q[3])
  \/ \E r \in Routes : CheckRateLimit(r)
  \/ \E r \in Routes : CheckQuota(r)
  \/ \E r \in Routes : CallReturns(r)
  \/ \E r \in Routes, e \in ErrorTexts : CallRaises(r, e)
  \/ \E r \in Routes : RouteFails(r)
  \/ \E o \in WriteOutcomes : SaveQuotaState(o)
  \/ \E q \in QRequests : QStart(1, q[1], q[2])
  \/ QTry(1)
  \/ \E text \in Texts : QReturns(1, text)
  \/ \E e \in ErrorTexts : QRaises(1, e)
  \/ QWake(1)
  \/ QFails(1)
  \/ \E d \in QJumps : QTick(d)

Spec == Init /\ [][Next]_vars

\* Requests used where one caller runs at a time
RequestsSeq ==
  { << "auto",  {"chat"}, 6 >>,
    << "auto",  {"chat"}, 1 >>,
    << "flash", {"chat", "function_calling"}, 2 >> }

\* ------------------------------------------------ runs under scheduling
\* Requests and states used where termination is followed: a list of two
\* candidates and the list of all six; a fresh manager and one whose top
\* model has one request of today's quota left
RequestsFair ==
  { << "flash", {"chat", "function_calling"}, 2 >>,
    << "auto",  {"chat"}, 6 >> }

InitFair ==
  /\ InitCommon
  /\ \/ /\ impl = "manager"
        /\ qstats = ColdStats
        /\ \/ /\ model_health = ConstructedHealth(NoFile, StartTime)
              /\ request_history = [n \in Names |-> << >>]
              /\ admitted = << >>
           \/ /\ model_health = WarmHealth(999)
              /\ request_history = [n \in Names |->
                    IF n = Flash2 THEN << StartTime >> ELSE << >>]
              /\ admitted = << << 1, StartTime >> >>
     \/ /\ impl = "quota"
        /\ qstats \in {ColdStats, WarmStats}
        /\ model_health = << >>
        /\ request_history = [n \in Names |-> << >>]
        /\ admitted = << >>

NextFair ==
  \/ \E r \in Routes, q \in RequestsFair : StartRoute(r, q[1], q[2], q[3])
  \/ \E r \in Routes : CheckRateLimit(r)
  \/ \E r \in Routes : CheckQuota(r)
  \/ \E r \in Routes : CallReturns(r)
  \/ \E r \in Routes, e \in ErrorTexts : CallRaises(r, e)
  \/ \E r \in Routes : RouteFails(r)
  \/ \E q \in QRequests : QStart(1, q[1], q[2])
  \/ QTry(1)
  \/ \E text \in Texts : QReturns(1, text)
  \/ \E e \in ErrorTexts : QRaises(1, e)
  \/ QWake(1)
  \/ QFails(1)

\* The scheduling of the event loop: the coroutine that runs takes its next
\* step (it keeps the loop until its next await), a sleep ends, and a
\* provider call that was dispatched comes back, with text or an error
Scheduling ==
  /\ WF_vars(\E r \in Routes : CheckRateLimit(r) \/ CheckQuota(r) \/ RouteFails(r))
  /\ \A r \in Routes :
        WF_vars(CallReturns(r) \/ \E e \in ErrorTexts : CallRaises(r, e))
  /\ WF_vars(QTry(1) \/ QWake(1) \/ QFails(1))
  /\ WF_vars((\E text \in Texts : QReturns(1, text))
                \/ (\E e \in ErrorTexts : QRaises(1, e)))

SpecFair == InitFair /\ [][NextFair]_vars /\ Scheduling

\* One caller at a time, with the clock and the background sweep
NextTime ==
  \/ \E q \in RequestsSeq : StartRoute(1, q[1], q[2], q[3])
  \/ CheckRateLimit(1)
  \/ CheckQuota(1)
  \/ CallReturns(1)
  \/ \E e \in ErrorTexts : CallRaises(1, e)
  \/ RouteFails(1)
  \/ \E o \in WriteOutcomes : HealthCheckLoop(o)
  \/ \E o \in WriteOutcomes : SaveQuotaState(o)
  \/ \E d \in Jumps : Tick(d)

InitTime == InitCommon /\ impl = "manager" /\ InitManager /\ qstats = ColdStats

SpecTime == InitTime /\ [][NextTime]_vars

\* One caller at a time, with the clock, the snapshot file and restarts
NextRestart ==
  \/ \E q \in RequestsSeq : StartRoute(1, q[1], q[2], q[3])
  \/ CheckRateLimit(1)
  \/ CheckQuota(1)
  \/ CallReturns(1)
  \/ \E e \in ErrorTexts : CallRaises(1, e)
  \/ RouteFails(1)
  \/ \E o \in WriteOutcomes : SaveQuotaState(o)
  \/ Restart
  \/ \E d \in Jumps : Tick(d)

SpecRestart == InitTime /\ [][NextRestart]_vars

\* ------------------------------------------------ the sweep, run for ever
\* The manager reads stored times in three ways only: timedelta.seconds of
\* (now - t), the order of t and now, and the order of their dates.  None of
\* them changes when every stored time and the clock are moved back by the
\* same whole number of days, nor when a time of a day before yesterday is
\* moved to the same time of the day before the first: the clock can then
\* run for ever over finitely many states.
ShiftTime(t, k) ==
  LET u == t - k * DaySeconds
  IN  IF u < 0 - DaySeconds THEN (u % DaySeconds) - DaySeconds ELSE u

ShiftHealth(mh, k) ==
  [n \in DOMAIN mh |->
     [mh[n] EXCEPT !.last_success     = ShiftTime(@, k),
                   !.rate_limit_reset = ShiftTime(@, k)]]

ShiftFile(file, k) ==
  IF file.kind # "state" THEN file
  ELSE [file EXCEPT
          !.timestamp = ShiftTime(@, k),
          !.model_health = [n \in DOMAIN file.model_health |->
             [file.model_health[n] EXCEPT !.rate_limit_reset = ShiftTime(@, k)]]]

\* Clock advances of the endless run: a day
SweepJumps == { DaySeconds }

\* The clock, with no bound on the number of advances
SweepTick(d) ==
  /\ running = Idle
  /\ LET t == now + d
         k == IF Date(t) >= 2 THEN Date(t) - 1 ELSE 0
     IN  /\ now' = t - k * DaySeconds
         /\ sweep_due' = ShiftTime(sweep_due, k)
         /\ model_health' = ShiftHealth(model_health, k)
         /\ request_history' =
               [n \in DOMAIN request_history |->
                  [j \in DOMAIN request_history[n] |->
                     ShiftTime(request_history[n][j], k)]]
         /\ quota_file' = ShiftFile(quota_file, k)
         /\ admitted' = FilterSeq(admitted,
               [x \in Range(admitted) |-> t - x[2] < WindowSeconds])
  /\ route' = Collected(route)
  /\ UNCHANGED << ticks, save_pending, running, failures, restarts, started,
                  impl, qmVars >>

\* A manager just constructed, or one whose top model has failed five times
InitSweep ==
  /\ InitCommon /\ impl = "manager" /\ qstats = ColdStats
  /\ request_history = [n \in Names |-> << >>]
  /\ \/ model_health = WarmErrors /\ admitted = Repeat(<< 1, 0 >>, 5)
     \/ model_health = ConstructedHealth(NoFile, StartTime) /\ admitted = << >>

\* One caller at a time (finitely many calls, all for a flash model with
\* function calling), the clock and the sweep; every write succeeds, and
\* no call is the tenth use of a model, so no save task is created
RequestsSweep == { << "flash", {"chat", "function_calling"}, 2 >> }

NextSweep ==
  \/ \E q \in RequestsSweep : StartRoute(1, q[1], q[2], q[3])
  \/ CheckRateLimit(1)
  \/ CheckQuota(1)
  \/ CallReturns(1)
  \/ \E e \in ErrorTexts : CallRaises(1, e)
  \/ RouteFails(1)
  \/ HealthCheckLoop("ok")
  \/ \E d \in SweepJumps : SweepTick(d)

\* Time passes; the loop task created in __init__ (line 71) wakes once its
\* sleep is over and the event loop is free (line 373); a coroutine that
\* has the event loop runs on to its next await or return.  A provider
\* call may stay pending for ever.
SpecSweep ==
  /\ InitSweep
  /\ [][NextSweep]_vars
  /\ WF_vars(\E d \in SweepJumps : SweepTick(d))
  /\ WF_vars(HealthCheckLoop("ok"))
  /\ WF_vars(CheckRateLimit(1))
  /\ WF_vars(CheckQuota(1))
  /\ WF_vars(RouteFails(1))

\* ------------------------------------------------- callers that give up
\* Concurrent callers at one instant, each of which may cancel its call
\* while the provider works on it
NextCancel ==
  \/ \E r \in Routes, q \in Requests : StartRoute(r, q[1], q[2], q[3])
  \/ \E r \in Routes : CheckRateLimit(r)
  \/ \E r \in Routes : CheckQuota(r)
  \/ \E r \in Routes : CallReturns(r)
  \/ \E r \in Routes, e \in ErrorTexts : CallRaises(r, e)
  \/ \E r \in Routes : RouteFails(r)
  \/ \E r \in Routes : CancelRoute(r)
  \/ \E r \in Routes, o \in ProviderOutcomes : AbandonedCallEnds(r, o)

SpecCancel == InitTime /\ [][NextCancel]_vars

\* ------------------------------------------- quota manager with its monitor
\* Every pair after a quota error at the start of observation: a call of
\* get_response visited all six pairs and each raised "Quota exceeded"
AllCooling ==
  [p \in AccountIds \X ModelType |->
     StatsAfterError(NewStats, "Quota exceeded", StartTime)]

\* Clock advances used with the monitor: its sleep, and the first cooldown
MonitorJumps == {MonitorSeconds, 60 * CooldownMinutes(1)}

InitMonitor ==
  /\ InitCommon
  /\ impl = "quota"
  /\ qstats \in {ColdStats, WarmStats, AllCooling}
  /\ model_health = << >>
  /\ request_history = [n \in Names |-> << >>]
  /\ admitted = << >>

\* One caller at a time, the clock and the passes of quota_monitor
NextMonitor ==
  \/ \E q \in QRequests : QStart(1, q[1], q[2])
  \/ QTry(1)
  \/ \E text \in Texts : QReturns(1, text)
  \/ \E e \in ErrorTexts : QRaises(1, e)
  \/ QWake(1)
  \/ QFails(1)
  \/ \E d \in MonitorJumps : QTick(d)
  \/ \E d \in MonitorElapsed : QuotaMonitor(d)

SpecMonitor == InitMonitor /\ [][NextMonitor]_vars

\* ================================================================== claims
\* The record of name n as the next access sees it (missing: the default)
UsedToday(mh, n) == IF n \in DOMAIN mh THEN mh[n].quota_used_today ELSE 0
ErrorCount(mh, n) == IF n \in DOMAIN mh THEN mh[n].error_count ELSE 0

\* Number of transport calls dispatched to candidate i in the 60 seconds up to t
AdmittedInWindow(i, t) ==
  Cardinality({ k \in DOMAIN admitted :
                  admitted[k][1] = i /\ admitted[k][2] <= t
                  /\ t - admitted[k][2] < WindowSeconds })

\* C1: every candidate is admitted (rate-limit check passed and transport
\* call dispatched) at most requestsPerMinute times in any trailing
\* 60-second window, under every interleaving of route calls.
C1_AdmissionsWithinLimit ==
  \A i \in DOMAIN models : AdmittedInWindow(i, now) <= models[i].rate_limit

\* C2: usedToday of a candidate never exceeds its requestsPerDay as a
\* result of route successes.
C2_UsedWithinQuota ==
  \A i \in DOMAIN models :
     UsedToday(model_health, models[i].name) <= models[i].daily_quota

\* Candidate i has used up today's quota: its counter is of today and has
\* reached requestsPerDay
Exhausted(i) ==
  LET n == models[i].name
  IN  /\ n \in DOMAIN model_health
      /\ Date(model_health[n].rate_limit_reset) >= Date(now)
      /\ model_health[n].quota_used_today >= models[i].daily_quota

\* The step of caller r that dispatches a transport call
Dispatches(r) == route[r].pc = "quota" /\ route'[r].pc = "call"

\* The step of caller r that returns from generate_response
Returns(r) == route[r].pc # "done" /\ route'[r].pc = "done"

\* The candidate a successful result names
ResultCandidate(res) ==
  CHOOSE i \in DOMAIN models :
     models[i].name = res.model_used /\ models[i].billing_account = res.billing_account

EntryOf(entry, i) ==
  /\ entry.model = models[i].name
  /\ entry.billing_account = models[i].billing_account

\* C4: when the call to the top-ranked candidate fails with a quota error
\* and the call to the next-ranked one succeeds, route returns a success
\* naming the second candidate, the trail is <<first failed, second
\* succeeded>>, and the first candidate's status is then QuotaExceeded.
C4_FailoverAfterQuotaError ==
  [][\A r \in Routes :
       ( /\ Returns(r)
         /\ Len(route[r].list) >= 2
         /\ route'[r].calls = SubSeq(route[r].list, 1, 2)
         /\ Len(route'[r].raised) = 1
         /\ IsQuotaError(route'[r].raised[1][2])
         /\ route[r].pc = "call" )
       => LET res    == route'[r].result
              first  == route[r].list[1]
              second == route[r].list[2]
          IN  /\ res.success
              /\ res.model_used = models[second].name
              /\ res.billing_account = models[second].billing_account
              /\ Len(res.attempts) = 2
              /\ EntryOf(res.attempts[1], first) /\ ~res.attempts[1].success
              /\ EntryOf(res.attempts[2], second) /\ res.attempts[2].success
              /\ model_health'[models[first].name].status = QUOTA_EXCEEDED]_vars

\* The trail of a failed generate_response has one entry per transport
\* call that raised, in order, with the error raised
TrailMatches(attempts, raised) ==
  /\ Len(attempts) = Len(raised)
  /\ \A k \in DOMAIN raised :
        /\ EntryOf(attempts[k], raised[k][1])
        /\ ~attempts[k].success
        /\ attempts[k].error = raised[k][2]

\* The same for the errors list of get_response: a quota error is entered
\* as the text "Quota exceeded for" and the model, any other error as the
\* model, the account and the text raised
ErrorsMatch(errors, raised) ==
  /\ Len(errors) = Len(raised)
  /\ \A k \in DOMAIN raised :
        /\ errors[k].model = raised[k][1][2]
        /\ IF IsQuotaText(raised[k][2])
           THEN errors[k].text = "Quota exceeded for"
           ELSE /\ errors[k].account = raised[k][1][1]
                /\ errors[k].error = raised[k][2]

\* C5: a route call in which no candidate succeeds returns a failure value
\* that carries the full trail (one entry per failed transport call, in
\* order) and the last error seen, which is the error of the last entry.
C5_FailureCarriesTrail ==
  /\ \A r \in Routes :
        (route[r].pc = "done" /\ ~route[r].result.success) =>
           /\ TrailMatches(route[r].result.attempts, route[r].raised)
           /\ Len(route[r].raised) = Len(route[r].calls)
           /\ route[r].result.last_error =
                 IF route[r].raised = << >> THEN NONE
                 ELSE route[r].raised[Len(route[r].raised)][2]
  /\ \A r \in Routes :
        (qroute[r].pc = "done" /\ ~qroute[r].result.success) =>
           ErrorsMatch(qroute[r].result.errors, qroute[r].raised)

\* C5 witness: a failure returned after two transport calls raised, in
\* the model manager and in the quota manager
C5_Witness ==
  \/ \E r \in Routes : /\ route[r].pc = "done" /\ ~route[r].result.success
                        /\ Len(route[r].raised) = 2
  \/ \E r \in Routes : /\ qroute[r].pc = "done" /\ ~qroute[r].result.success
                        /\ Len(qroute[r].raised) = 2

\* C6: a skipped candidate does not count against maxAttempts: a route
\* call that fails after fewer than maxAttempts transport calls has gone
\* through every capable candidate.
C6_SkipsAreFree ==
  \A r \in Routes :
     ( /\ route[r].pc = "done"
       /\ ~route[r].result.success
       /\ Len(route[r].calls) < route[r].max_retries )
     => Range(route[r].suitable) \subseteq Range(route[r].calls) \cup route[r].skipped

\* C7: one route call dispatches at most maxAttempts transport calls.
C7_AtMostMaxAttempts ==
  /\ \A r \in Routes : Len(route[r].calls) <= route[r].max_retries
  /\ \A r \in Routes : Len(qroute[r].calls) <= qroute[r].max_retries

\* Candidate i has every capability of caps
Capable(i, caps) == caps \subseteq models[i].capabilities

\* The step of caller r that computes the candidate list
ComputesList(r) == ~Active(r) /\ route'[r].pc = "loop"

\* C8: the list route considers holds only capable candidates and, with no
\* preference hint, all of them; computing it changes no health, quota or
\* rate state.
C8_ListIsCapableAndPure ==
  [][\A r \in Routes :
       ComputesList(r) =>
         /\ \A i \in Range(route'[r].suitable) : Capable(i, route'[r].caps)
         /\ route'[r].pref = "auto" =>
               \A i \in DOMAIN models :
                  Capable(i, route'[r].caps) => i \in Range(route'[r].suitable)
         /\ UNCHANGED << model_health, request_history >>]_vars

\* C9: a preference hint excludes no capable candidate from the list.
C9_HintExcludesNone ==
  \A r \in Routes :
     route[r].pc # "idle" =>
        \A i \in DOMAIN models :
           Capable(i, route[r].caps) => i \in Range(route[r].suitable)

\* The step that restarts the process
Restarts == restarts' = restarts + 1

\* C10: a snapshot restored at startup on the day it was written gives
\* every candidate of the snapshot its usedToday and consecutiveErrors.
C10_RestoreReproduces ==
  [][( /\ Restarts
       /\ quota_file.kind = "state"
       /\ Date(quota_file.timestamp) = Date(now) )
     => \A n \in DOMAIN quota_file.model_health :
           /\ UsedToday(model_health', n) = quota_file.model_health[n].quota_used_today
           /\ ErrorCount(model_health', n) = quota_file.model_health[n].error_count]_vars

\* The status of name n as the next access sees it (missing: the default)
StatusOf(mh, n) == IF n \in DOMAIN mh THEN mh[n].status ELSE AVAILABLE

\* C11: a snapshot whose date is not the current date is not applied at
\* startup: every candidate then has usedToday = 0, consecutiveErrors = 0
\* and status Available.
C11_StaleSnapshotDiscarded ==
  [][( /\ Restarts
       /\ quota_file.kind = "state"
       /\ Date(quota_file.timestamp) # Date(now) )
     => \A n \in Names :
           /\ UsedToday(model_health', n) = 0
           /\ ErrorCount(model_health', n) = 0
           /\ StatusOf(model_health', n) = AVAILABLE]_vars

\* C11 witness: the process has just been constructed (the sweep is due a
\* full period from now) over a snapshot of an earlier day that holds a
\* used quota
C11_Witness ==
  /\ restarts = 1
  /\ sweep_due = now + SweepSeconds
  /\ quota_file.kind = "state"
  /\ Date(quota_file.timestamp) < Date(now)
  /\ \E n \in DOMAIN quota_file.model_health :
        quota_file.model_health[n].quota_used_today > 0
  /\ \A n \in Names : UsedToday(model_health, n) = 0

\* The step in which the call of caller r to its current pair raises a
\* quota error (lines 181-194 of the quota manager)
QuotaErrorAt(r, p) ==
  /\ qroute[r].pc = "call"
  /\ p = qroute[r].order[qroute[r].pos]
  /\ qstats'[p].quota_errors = qstats[p].quota_errors + 1

\* 5 * 2^n minutes capped at 60, in seconds
BackoffSeconds(n) == 60 * Min(60, 5 * Pow2(n))

\* C12 as stated: a quota failure on a pair whose error count was n just
\* before gives cooldownUntil = now + min(60, 5*2^n) minutes (40 minutes
\* for n = 3).
C12_BackoffFromPriorCount ==
  [][\A r \in Routes : \A p \in DOMAIN qstats :
        QuotaErrorAt(r, p) =>
           qstats'[p].cooldown_until = now + BackoffSeconds(qstats[p].quota_errors)]_vars

\* C12 amended: the count is incremented first, so a prior count n gives
\* cooldownUntil = now + min(60, 5*2^min(n+1,5)) minutes: 60 minutes for
\* n = 3, and 40 minutes for n = 2.
C12_BackoffFromNewCount ==
  [][\A r \in Routes : \A p \in DOMAIN qstats :
        QuotaErrorAt(r, p) =>
           LET n == qstats[p].quota_errors
           IN  /\ qstats'[p].cooldown_until = now + BackoffSeconds(Min(n + 1, 5))
               /\ n = 3 => qstats'[p].cooldown_until = now + 60 * 60
               /\ n = 2 => qstats'[p].cooldown_until = now + 40 * 60]_vars

\* C12 witness: a pair with four quota errors, the fourth just recorded,
\* cools down for 60 minutes
C12_Witness ==
  \E p \in DOMAIN qstats :
     /\ qstats[p].quota_errors = 4
     /\ qstats[p].last_quota_error = now
     /\ qstats[p].cooldown_until = now + 3600

\* The kind of a transport failure with text e, as the router's contract
\* classifies it
ErrorKind(e) ==
  IF LowerContains(e, "quota") \/ RawContains(e, "429") THEN "QuotaExceeded"
  ELSE IF LowerContains(e, "rate") THEN "RateLimited"
  ELSE "Other"

\* The step in which the transport call of caller r raises (model manager)
Raises(r) == route[r].pc = "call" /\ route'[r].pc = "loop"

\* The name of the candidate caller r is calling, and the error raised
CalledName(r) == models[route[r].list[route[r].pos]].name
RaisedError(r) == route'[r].last_error

\* C13: recording a QuotaExceeded failure increments the error count to c,
\* sets status = QuotaExceeded and cooldownUntil = now + min(60,
\* 5*2^min(c,5)) minutes, never more than 60 minutes.  In the model manager
\* the only deadline of a health record is rate_limit_reset.
C13_QuotaFailureBacksOff ==
  [][/\ \A r \in Routes : \A p \in DOMAIN qstats :
          QuotaErrorAt(r, p) =>
             /\ qstats'[p].cooldown_until =
                   now + BackoffSeconds(Min(qstats'[p].quota_errors, 5))
             /\ qstats'[p].cooldown_until <= now + 3600
     /\ \A r \in Routes :
          (Raises(r) /\ ErrorKind(RaisedError(r)) = "QuotaExceeded") =>
             LET n == CalledName(r)
                 c == ErrorCount(model_health', n)
             IN  /\ c = ErrorCount(model_health, n) + 1
                 /\ StatusOf(model_health', n) = QUOTA_EXCEEDED
                 /\ model_health'[n].rate_limit_reset =
                       now + BackoffSeconds(Min(c, 5))]_vars

\* The step in which the call of caller r raises (quota manager), the pair
\* called and the error raised
QRaisesStep(r) ==
  /\ qroute[r].pc = "call"
  /\ Len(qroute'[r].raised) = Len(qroute[r].raised) + 1

QCalledPair(r) == qroute[r].order[qroute[r].pos]
QRaisedError(r) == qroute'[r].raised[Len(qroute'[r].raised)][2]

\* C14: every transport failure is of exactly one kind ("quota" or 429:
\* QuotaExceeded, also when the text contains "rate"; else "rate":
\* RateLimited; else Other) and health changes as for that kind only: the
\* status is that of the kind, the one-minute deadline is set for
\* RateLimited alone, and the quota manager counts a quota error for
\* QuotaExceeded alone.
C14_OneKindPerFailure ==
  [][/\ \A r \in Routes :
          Raises(r) =>
             LET n  == CalledName(r)
                 k  == ErrorKind(RaisedError(r))
                 h  == Touch(model_health, n, now)[n]
                 h2 == model_health'[n]
             IN  /\ k = "QuotaExceeded" =>
                       /\ h2.status = QUOTA_EXCEEDED
                       /\ h2.rate_limit_reset = h.rate_limit_reset
                 /\ k = "RateLimited" =>
                       /\ h2.status = RATE_LIMITED
                       /\ h2.rate_limit_reset = now + 60
                 /\ k = "Other" =>
                       /\ h2.status \notin {QUOTA_EXCEEDED, RATE_LIMITED}
                          \/ h2.status = h.status
                       /\ h2.rate_limit_reset = h.rate_limit_reset
     /\ \A r \in Routes :
          QRaisesStep(r) =>
             LET p == QCalledPair(r)
                 k == ErrorKind(QRaisedError(r))
             IN  /\ (k = "QuotaExceeded") <=>
                       qstats'[p].quota_errors = qstats[p].quota_errors + 1
                 /\ (k = "Other") <=>
                       qstats'[p].other_errors = qstats[p].other_errors + 1]_vars

\* The step in which the transport call of caller r returns (model manager)
Succeeds(r) == route[r].pc = "call" /\ route'[r].pc = "done"

\* The step in which the provider call of caller r returns (quota manager)
QSucceeds(r) ==
  /\ qroute[r].pc = "call"
  /\ qstats'[QCalledPair(r)].successful_requests =
        qstats[QCalledPair(r)].successful_requests + 1

\* C15: after a successful transport call the candidate's record has status
\* Available, no consecutive errors, no error message and lastSuccessAt =
\* now, whatever it held before.  In the quota manager the error count that
\* drives the backoff is quota_errors.
C15_SuccessResetsHealth ==
  [][/\ \A r \in Routes :
          Succeeds(r) =>
             LET h2 == model_health'[CalledName(r)]
             IN  /\ h2.status = AVAILABLE
                 /\ h2.error_count = 0
                 /\ h2.last_error = NONE
                 /\ h2.last_success = now
     /\ \A r \in Routes :
          QSucceeds(r) =>
             LET st2 == qstats'[QCalledPair(r)]
             IN  /\ st2.last_success = now
                 /\ st2.quota_errors = 0]_vars

\* C16: recording a failure classified RateLimited sets status =
\* RateLimited and cooldownUntil = now + 1 minute, whatever the status and
\* the error count were before.
C16_RateLimitedCoolsOneMinute ==
  [][\A r \in Routes :
        (Raises(r) /\ ErrorKind(RaisedError(r)) = "RateLimited") =>
           LET h2 == model_health'[CalledName(r)]
           IN  /\ h2.status = RATE_LIMITED
               /\ h2.rate_limit_reset = now + 60]_vars

\* C17: recording a failure classified Other increments the error count,
\* stores the error text and sets status = Errored with no cooldown,
\* whatever the error count was before.  The quota manager keeps the count
\* in other_errors.
C17_OtherFailureIsErrored ==
  [][/\ \A r \in Routes :
          (Raises(r) /\ ErrorKind(RaisedError(r)) = "Other") =>
             LET n  == CalledName(r)
                 h  == Touch(model_health, n, now)[n]
                 h2 == model_health'[n]
             IN  /\ h2.error_count = h.error_count + 1
                 /\ h2.last_error = RaisedError(r)
                 /\ h2.status = ERROR
                 /\ h2.rate_limit_reset = h.rate_limit_reset
     /\ \A r \in Routes :
          (QRaisesStep(r) /\ ErrorKind(QRaisedError(r)) = "Other") =>
             LET p == QCalledPair(r)
             IN  /\ qstats'[p].other_errors = qstats[p].other_errors + 1
                 /\ qstats'[p].cooldown_until = qstats[p].cooldown_until]_vars

\* The score of the ranking as stated: priority, plus the penalty of the
\* status, minus 5 exactly when the last success is less than 5 minutes old
StatedScore(m, mh, t) ==
  LET health  == mh[m.name]
      penalty == CASE health.status = QUOTA_EXCEEDED -> 100
                   [] health.status = RATE_LIMITED   -> 50
                   [] health.status = ERROR          -> 25 + health.error_count
                   [] OTHER                          -> 0
      bonus   == IF t - health.last_success < 5 * 60 THEN 5 ELSE 0
  IN  m.priority + penalty - bonus

\* C18: the candidates of a route call are attempted in ascending order of
\* the score of the health state at the start of the call: priority + (100
\* if QuotaExceeded, 50 if RateLimited, 25 + consecutiveErrors if Errored)
\* - (5 iff the last success is less than 5 minutes old).
C18_AttemptsInScoreOrder ==
  [][\A r \in Routes :
        ComputesList(r) =>
           LET l == route'[r].list
           IN  \A j, k \in DOMAIN l :
                  j < k => StatedScore(models[l[j]], model_health', now)
                              <= StatedScore(models[l[k]], model_health', now)]_vars

\* The step of caller r in which the rate-limit check admits, or refuses,
\* the candidate at the head of its list
RateAdmits(r)  == route[r].pc = "loop" /\ route'[r].pc = "quota"
RateRefuses(r) ==
  /\ route[r].pc = "loop" /\ route'[r].pc = "loop"
  /\ route'[r].pos = route[r].pos + 1
  /\ route'[r].skipped # route[r].skipped

\* C19: the rate-limit check reserves what it admits: when it admits a
\* candidate it appends the current time to the candidate's window in the
\* same step, and when it refuses it appends nothing.
C19_CheckReserves ==
  [][\A r \in Routes :
        LET n      == CalledName(r)
            pruned == PrunedHistory(request_history[n], now)
        IN  /\ RateAdmits(r)  => request_history'[n] = Append(pruned, now)
            /\ RateRefuses(r) => request_history'[n] = pruned]_vars

\* The step of caller r that makes the quota check (lines 190-193)
QuotaChecks(r) == route[r].pc = "quota" /\ route'[r].pc \in {"call", "loop"}

\* No transport call to a candidate of name n was dispatched on the day of t
NoUseOnDay(n, t) ==
  \A k \in DOMAIN admitted :
     models[admitted[k][1]].name = n => Date(admitted[k][2]) # Date(t)

\* C20: the first quota access (the check, or the increment after a call)
\* made after the date has passed the window start of the counter sets
\* usedToday to 0 and the window start to the current date before it
\* compares or increments; so a check made on a day without any use finds
\* usedToday = 0.  The window start of the model manager is
\* rate_limit_reset.
C20_LazyDayRoll ==
  [][\A r \in Routes :
        LET n  == CalledName(r)
            h  == Touch(model_health, n, now)[n]
            h2 == model_health'[n]
        IN  /\ (QuotaChecks(r) /\ Date(h.rate_limit_reset) < Date(now)) =>
                  /\ h2.quota_used_today = 0
                  /\ Date(h2.rate_limit_reset) = Date(now)
            /\ (Succeeds(r) /\ Date(h.rate_limit_reset) < Date(now)) =>
                  /\ h2.quota_used_today = 1
                  /\ Date(h2.rate_limit_reset) = Date(now)
            /\ (QuotaChecks(r) /\ NoUseOnDay(n, now)) =>
                  h2.quota_used_today = 0]_vars


\* ------------------------------------------------------------------- C21
\* The background loop woke from its sleep in this step
LoopWakes == sweep_due' # sweep_due /\ restarts' = restarts

\* The save task created by _track_usage ran in this step
SaveTaskRuns == save_pending /\ ~save_pending' /\ restarts' = restarts

\* The file does not hold the snapshot the step built: the write failed
WriteFailed == quota_file' # Snapshot(model_health', now)

\* C21: a step whose snapshot write fails changes no route record (finished
\* ones are only collected), no request window and no health record beyond
\* what the sweep itself does, and the loop is armed again for its next
\* wake-up 300 seconds later.
C21_WriteFailureSwallowed ==
  [][ (LoopWakes \/ SaveTaskRuns) /\ WriteFailed =>
        /\ route' = Collected(route)
        /\ request_history' = request_history
        /\ running' = Idle
        /\ LoopWakes  => /\ model_health' = SweepAll(model_health, now)
                         /\ sweep_due' = now + SweepSeconds
        /\ ~LoopWakes => /\ model_health' = model_health
                         /\ sweep_due' = sweep_due ]_vars

\* A route returned a success after the loop woke and its write failed
C21_Witness ==
  /\ quota_file = CorruptFile
  /\ sweep_due > StartTime + SweepSeconds
  /\ \E r \in Routes : route[r].pc = "done" /\ route[r].result.success


\* ------------------------------------------------------------------- C22
\* The candidate (position in self.models) caller r is calling
CalledCandidate(r) == route[r].list[route[r].pos]

\* What the next access to candidate j sees of its health, quota and window
RecordOf(mh, rh, j) ==
  LET n == models[j].name
  IN  [status           |-> StatusOf(mh, n),
       error_count      |-> ErrorCount(mh, n),
       quota_used_today |-> UsedToday(mh, n),
       request_history  |-> rh[n]]

\* C22: recording a success or a failure of a transport call to one
\* candidate (model name plus account) leaves the status, error count,
\* quota counter and request window of every other candidate unchanged,
\* the candidate of the same model name on the other account included.
C22_CandidatesAreSeparate ==
  [][\A r \in Routes :
        Succeeds(r) \/ Raises(r) =>
           \A j \in DOMAIN models :
              j # CalledCandidate(r) =>
                 RecordOf(model_health', request_history', j)
                   = RecordOf(model_health, request_history, j)]_vars


\* ------------------------------------------------------------------- C23
\* C23: a successful route returns the first candidate, in rank order,
\* whose transport call succeeded; its trail has exactly one entry per
\* transport call made, in order (none for a skipped candidate), the last
\* entry is the only success, and every earlier call raised.  Where the
\* trail is a count (get_response), it is the number of transport calls.
C23_SuccessTrail ==
  /\ \A r \in Routes :
        (route[r].pc = "done" /\ route[r].result.success) =>
           LET att == route[r].result.attempts
               cs  == route[r].calls
           IN  /\ Len(att) = Len(cs)
               /\ \A k \in DOMAIN cs :
                     /\ EntryOf(att[k], cs[k])
                     /\ att[k].success <=> k = Len(cs)
               /\ Len(route[r].raised) = Len(cs) - 1
               /\ ResultCandidate(route[r].result) = cs[Len(cs)]
  /\ \A r \in Routes :
        (qroute[r].pc = "done" /\ qroute[r].result.success) =>
           LET cs == qroute[r].calls
           IN  /\ qroute[r].result.attempts = Len(cs)
               /\ << qroute[r].result.account_used,
                     qroute[r].result.model_used >> = cs[Len(cs)]


\* ------------------------------------------------------------------- C24
\* C24: in every reachable state a candidate whose status is RateLimited or
\* QuotaExceeded has a deadline (rate_limit_reset, the only deadline of a
\* health record) later than the current time.
C24_LimitedHasFutureDeadline ==
  \A n \in DOMAIN model_health :
     model_health[n].status \in {RATE_LIMITED, QUOTA_EXCEEDED}
        => model_health[n].rate_limit_reset > now


\* ------------------------------------------------------------------- C25
\* The step of get_response that dispatches a provider call
QDispatches(r) == qroute[r].pc = "loop" /\ qroute'[r].pc = "call"

\* C25: no transport call is dispatched to a candidate whose cooldown has
\* not expired: a RATE_LIMITED record with now < rate_limit_reset in the
\* model manager, a pair with now < cooldown_until in the quota manager.
C25_NoDispatchInCooldown ==
  [][ /\ \A r \in Routes :
            Dispatches(r) =>
               LET n == models[route'[r].list[route'[r].pos]].name
               IN  ~ ( /\ StatusOf(model_health, n) = RATE_LIMITED
                       /\ now < model_health[n].rate_limit_reset )
      /\ \A r \in Routes :
            QDispatches(r) =>
               ~InCooldown(qstats[qroute'[r].order[qroute'[r].pos]], now) ]_vars


\* ------------------------------------------------------------------- C26
\* The record of name n is RateLimited or QuotaExceeded and its deadline
\* has passed
LimitedAndDue(n) ==
  /\ StatusOf(model_health, n) \in {RATE_LIMITED, QUOTA_EXCEEDED}
  /\ now > model_health[n].rate_limit_reset

\* C26: with the sweep scheduled fairly, a candidate that is RateLimited or
\* QuotaExceeded with its deadline passed is eventually Available again,
\* whatever route calls interleave and even if none succeeds on it.
C26_LimitedEventuallyAvailable ==
  \A n \in Names :
     LimitedAndDue(n) ~> (StatusOf(model_health, n) = AVAILABLE)


\* ------------------------------------------------------------------- C27
\* C27: a sweep resets the error count to 0 for exactly the candidates
\* that are Available, have an error count above 0 and a last success
\* more than 5 minutes old; it leaves every other error count unchanged.
C27_DecayExactly ==
  [][ LoopWakes =>
        \A n \in DOMAIN model_health :
           ErrorCount(model_health', n) =
              IF /\ model_health[n].status = AVAILABLE
                 /\ model_health[n].error_count > 0
                 /\ now - model_health[n].last_success > RecentSeconds
              THEN 0
              ELSE model_health[n].error_count ]_vars


\* ------------------------------------------------------------------- C28
\* C28: a candidate that has entered Errored is Available again only
\* through a recorded success: with none since it was Errored, no sweep
\* and no other step makes it Available.
C28_ErroredNeedsSuccess ==
  \A n \in DOMAIN model_health :
     model_health[n].was_errored => model_health[n].status # AVAILABLE


\* ------------------------------------------------------------------- C29
\* Number of call outcomes and sweeps applied in a row to one record
StatusDepth == 6

\* The clock between two of them: no time, or a day and a minute
Advances == { 0, DaySeconds + 61 }

\* The records one call outcome or one visit of the sweep at time t makes
\* of record h
Outcomes(h, t) ==
  LET d == [x \in {Flash2} |-> h]
  IN  { HealthAfterSuccess(d, Flash2, t)[Flash2] }
      \cup { RecordedFailure(d, Flash2, e, t)[Flash2] : e \in ErrorTexts }
      \cup { SweepOne(d, Flash2, t)[Flash2] }

\* The records (with the time) that at most k call outcomes and sweeps make
\* of a record just created
RECURSIVE ReachedIn(_)
ReachedIn(k) ==
  IF k = 0 THEN { << DefaultHealth(StartTime), StartTime >> }
  ELSE UNION { {p} \cup UNION { { << h, p[2] + a >> : h \in Outcomes(p[1], p[2] + a) }
                                : a \in Advances }
               : p \in ReachedIn(k - 1) }

ReachableStatuses == { p[1].status : p \in ReachedIn(StatusDepth) }

\* C29 as stated: every health record starts in Available, and each of the
\* five statuses is reachable from Available by some sequence of call
\* outcomes and sweeps.
C29_AllStatusesReachable ==
  /\ DefaultHealth(now).status = AVAILABLE
  /\ ReachableStatuses = ModelStatus

\* C29 amended: every health record starts in Available; Available,
\* RateLimited, QuotaExceeded and Errored are reachable from it by call
\* outcomes and sweeps, and Offline is not: no record ever has it.
C29_AllButOfflineReachable ==
  /\ DefaultHealth(now).status = AVAILABLE
  /\ ReachableStatuses = ModelStatus \ {OFFLINE}
  /\ \A n \in DOMAIN model_health : model_health[n].status # OFFLINE

\* One record has become Errored and another RateLimited or QuotaExceeded
C29_Witness ==
  \E n1, n2 \in DOMAIN model_health :
     /\ model_health[n1].status = ERROR
     /\ model_health[n2].status \in {RATE_LIMITED, QUOTA_EXCEEDED}


\* ------------------------------------------------------------------- C30
\* Largest number of failures in a row considered
MaxErrorsInRow == 30

\* The record of a model just created after k calls in a row that raised e
RECURSIVE AfterFailures(_, _)
AfterFailures(k, e) ==
  IF k = 0 THEN DefaultHealth(StartTime)
  ELSE CHOOSE h \in { RecordedFailure([x \in {Flash2} |-> g], Flash2, e, StartTime)[Flash2] :
                        g \in { AfterFailures(k - 1, e) } } : TRUE

\* model_score of configuration m at time t when its record is h
ScoreOf(m, h, t) == ModelScore(m, [x \in {m.name} |-> h], t)

\* C30: with the same priority and the same last success, an Available
\* candidate ranks before an Errored one, an Errored one before a
\* RateLimited one and that before a QuotaExceeded one, whatever error
\* count the Errored candidate has reached.
C30_StatusOrder ==
  \A m \in Range(models) : \A k \in 6..MaxErrorsInRow :
     LET hA == AfterFailures(0, "Connection timeout")
         hE == AfterFailures(k, "Connection timeout")
         hR == AfterFailures(1, "Rate limit hit")
         hQ == AfterFailures(1, "Quota exceeded")
     IN  /\ hE.status = ERROR /\ hR.status = RATE_LIMITED
         /\ hQ.status = QUOTA_EXCEEDED /\ hA.status = AVAILABLE
         /\ ScoreOf(m, hA, now) < ScoreOf(m, hE, now)
         /\ ScoreOf(m, hE, now) < ScoreOf(m, hR, now)
         /\ ScoreOf(m, hR, now) < ScoreOf(m, hQ, now)

\* ------------------------------------------------------------------- C31
\* C31: after a rate-limit check at time t the window of the candidate
\* checked holds only timestamps of the trailing 60 seconds of t: every
\* entry older than 60 seconds is gone, however old it is (entries of a
\* day or more ago included).
C31_WindowIsTrailingMinute ==
  [][\A r \in Routes :
        (RateAdmits(r) \/ RateRefuses(r)) =>
           \A x \in Range(request_history'[CalledName(r)]) :
              now - x < WindowSeconds]_vars

\* ------------------------------------------------------------------- C32
\* C32: when the caller has cancelled a route call whose transport call is
\* in flight, the outcome of that call is still recorded when the call
\* completes: a use (usedToday and the request window) or a failure (the
\* error count) of the candidate called.
C32_AbandonedCallRecorded ==
  [][\A r \in Routes :
        (route[r].pc = "cancelled" /\ route'[r].pc = "idle") =>
           LET n == CalledName(r)
           IN  \/ /\ UsedToday(model_health', n) = UsedToday(model_health, n) + 1
                  /\ Len(request_history'[n]) = Len(request_history[n]) + 1
               \/ ErrorCount(model_health', n) = ErrorCount(model_health, n) + 1]_vars

\* ------------------------------------------------------------------- C33
\* C33: under every interleaving no update is lost or counted twice:
\* usedToday of a candidate is the number of its transport calls that
\* completed successfully since the counter was last reset, and
\* consecutiveErrors the number of its failures recorded since the last
\* reset to 0.  Step by step: usedToday of candidate i (as its next access
\* reads it) grows by one, from its value or from 0, in the step that
\* completes a successful call to i, and in every other step keeps its
\* value or becomes 0; likewise consecutiveErrors and the step that
\* records a failure of i.
C33_CountsAreExact ==
  [][\A i \in DOMAIN models :
        LET u  == UsedToday(model_health, models[i].name)
            u2 == UsedToday(model_health', models[i].name)
            c  == ErrorCount(model_health, models[i].name)
            c2 == ErrorCount(model_health', models[i].name)
        IN  /\ IF \E r \in Routes : Succeeds(r) /\ CalledCandidate(r) = i
               THEN u2 \in {u + 1, 1}
               ELSE u2 \in {u, 0}
            /\ IF \E r \in Routes : Raises(r) /\ CalledCandidate(r) = i
               THEN c2 = c + 1
               ELSE c2 \in {c, 0}]_vars

\* ------------------------------------------------------------------- C34
\* C34: in every reachable state of the model manager a health record
\* whose status is Errored has more than five consecutive errors.
C34_ErroredHasManyErrors ==
  \A n \in DOMAIN model_health :
     model_health[n].status = ERROR => model_health[n].error_count > 5

\* C34 witness: the sweep has run over a record that a failure left Errored
C34_Witness ==
  /\ sweep_due > StartTime + SweepSeconds
  /\ \E n \in DOMAIN model_health :
        /\ model_health[n].status = ERROR
        /\ model_health[n].last_error # NONE

\* ------------------------------------------------------------------- C35
\* C35: a failed transport call changes health fields only: usedToday of
\* the candidate called, the date of its quota window start and its
\* request window are the same after the failure is recorded as before.
\* The window start of the model manager is rate_limit_reset.
C35_FailureKeepsQuotaAndWindow ==
  [][\A r \in Routes :
        Raises(r) =>
           LET n  == CalledName(r)
               h  == Touch(model_health, n, now)[n]
               h2 == model_health'[n]
           IN  /\ h2.quota_used_today = h.quota_used_today
               /\ Date(h2.rate_limit_reset) = Date(h.rate_limit_reset)
               /\ request_history'[n] = request_history[n]]_vars

\* ------------------------------------------------------------------- C36
\* C36: when every capable candidate is skipped by the rate-limit or the
\* quota check, the route call makes no transport call, changes no
\* candidate's status or consecutiveErrors (no step that skips a
\* candidate or ends the loop does), and returns the failure result with
\* an empty trail and no last error.
C36_AllSkippedIsFree ==
  [][\A r \in Routes :
        LET SkipStep == \/ RateRefuses(r)
                        \/ QuotaChecks(r) /\ route'[r].pc = "loop"
                        \/ Returns(r) /\ route[r].pc = "loop"
            ReturnsAllSkipped == /\ Returns(r)
                                 /\ route'[r].list # << >>
                                 /\ Range(route'[r].list) = route'[r].skipped
        IN  /\ SkipStep =>
                 \A n \in Names :
                    /\ StatusOf(model_health', n) = StatusOf(model_health, n)
                    /\ ErrorCount(model_health', n) = ErrorCount(model_health, n)
            /\ ReturnsAllSkipped =>
                 /\ route'[r].calls = << >>
                 /\ route'[r].result.success = FALSE
                 /\ route'[r].result.model_used = NONE
                 /\ route'[r].result.attempts = << >>
                 /\ route'[r].result.last_error = NONE]_vars

\* C36 witness: a call has returned the failure after it skipped both
\* candidates of its list
C36_Witness ==
  \E r \in Routes :
     /\ route[r].pc = "done"
     /\ Len(route[r].list) = 2
     /\ Range(route[r].list) = route[r].skipped
     /\ ~route[r].result.success

\* ------------------------------------------------------------------- C37
\* C37: within one route call every candidate receives at most one
\* transport call (a failed candidate is not tried again in the same
\* call), and the route call ends with a success or a failure result once
\* the transport calls it dispatched have come back.
C37_OnceEachAndTerminates ==
  LET NoRepeats(s) == \A j, k \in DOMAIN s : j # k => s[j] # s[k]
  IN  /\ [](\A r \in Routes : /\ NoRepeats(route[r].calls)
                              /\ NoRepeats(qroute[r].calls))
      /\ \A r \in Routes : Active(r) ~> (route[r].pc = "done")
      /\ \A r \in Routes : QActive(r) ~> (qroute[r].pc = "done")

\* C37 witness: a route call has ended after a transport call of it failed
\* and it went on to another candidate
C37_Witness ==
  \E r \in Routes :
     /\ route[r].pc = "done"
     /\ Len(route[r].raised) >= 1
     /\ Len(route[r].calls) >= 2

\* ------------------------------------------------------------------- C38
\* C38: for every (account, model) pair, after any sequence of
\* get_response calls and quota_monitor passes, total_requests =
\* successful_requests + quota_errors + other_errors; and the skip of a
\* pair that is in cooldown changes none of these counters.
C38_CountersAddUp ==
  [][LET Counters(st) == << st.total_requests, st.successful_requests,
                            st.quota_errors, st.other_errors >>
         AddsUp(st)   == st.total_requests = st.successful_requests
                                              + st.quota_errors + st.other_errors
     IN  /\ \A p \in DOMAIN qstats : AddsUp(qstats'[p])
         /\ \A r \in Routes :
              (qroute[r].pc = "loop" /\ qroute'[r].skipped # qroute[r].skipped) =>
                 \A p \in DOMAIN qstats :
                    Counters(qstats'[p]) = Counters(qstats[p])]_vars

====
